---- MODULE Spec2Model ----
(***************************************************************************)
(* Host execution core of Project-COBALT: the ExecutionCommand model        *)
(* (execution_command.py), the synchronous runner                          *)
(* (sync_execution.execute_sync), the asynchronous runner                  *)
(* (async_execution.execute_async, _terminate_process) and the             *)
(* bounded-concurrency WorkflowManager (workflow_manager.py).              *)
(*                                                                         *)
(* One step of the model is one run of a coroutine between two awaits of   *)
(* the single-threaded asyncio loop, or one step of the operating system   *)
(* (a child exits, a signalled child dies).                                *)
(***************************************************************************)
EXTENDS Integers, Sequences, FiniteSets, TLC

\* ---------------------------------------------------------------- bounds
MaxPermits == 1        \* largest configured max_concurrent_tasks
MaxBatch == 2          \* longest command_list handed to run_workflow
MaxRuns == 2           \* run_workflow calls on one manager
MaxTasks == 2          \* list elements handed to one manager over all its calls
MaxSerialBatch == 3    \* longest command_list handed to a manager with one permit
MaxClock == 1          \* time.time() readings are 0..MaxClock
MaxExitCode == 1       \* a child exits with a code in 0..MaxExitCode
MaxTimeout == 1        \* ExecutionCommand.timeout is in 1..MaxTimeout
MaxOut == 1            \* chunks of output a child writes
MaxEnvCalls == 2       \* runner invocations whose environment is followed

\* ------------------------------------------------------ program constants
DefaultMaxConcurrentTasks == 10
DefaultTimeout == 300
NoExitCode == 0 - 1

Commands == {"prog"}
CtxIds == {"a", "b"}
Clock == 0..MaxClock
ExitCodes == 0..MaxExitCode
Timeouts == 1..MaxTimeout

\* ------------------------------------------------------------ data model
\* ExecutionCommand: the fields the runners and the manager branch on.
\* command and context_id are required, timeout has gt=0.
ExecutionCommand == [command : Commands, context_id : CtxIds, timeout : Timeouts]

\* An element of a command_list that is not an ExecutionCommand (a dict,
\* None): it has none of the attributes, the fields are placeholders.
NotACommand == [command |-> "?", context_id |-> "?", timeout |-> 0]

\* Optional[str] error_message: None, or the f-string of one branch with
\* the value it interpolates.
NoMsg == [kind |-> "None", arg |-> 0]
MsgNonZero(code) == [kind |-> "Command exited with non-zero code", arg |-> code]
\* contrast for C11: a timeout message that leaves the value out
MsgTimeout_NoValue(t) == [kind |-> "Command timed out after", arg |-> 0 * t]
MsgTimeout(t) == [kind |-> "Command timed out after", arg |-> t]
MsgNotFound(command) == [kind |-> "Executable not found", arg |-> command]
MsgUnexpected == [kind |-> "Unexpected system error during execution", arg |-> 0]
\* "Failed to start process: {type(e).__name__}: {e}"
MsgFailedToStart(exc) == [kind |-> "Failed to start process", arg |-> exc]

\* ExecutionResult.status
ResultStatus == {"SUCCESS", "FAILURE", "TIMEOUT", "ERROR"}

\* ExecutionResult.model_validate: status is one of the Literal values and
\* duration_s satisfies ge=0; the other fields always have their type.
\* (contrast for C22: duration_s declared without ge=0)
ModelValidate_NoGe(kw) == kw.status \in ResultStatus
ModelValidate(kw) == kw.status \in ResultStatus /\ kw.duration_s >= 0

\* What a call left to its caller: an ExecutionResult, or the exception
\* that left the function instead.
NoResult == [status |-> "NONE", exit_code |-> NoExitCode, duration_s |-> 0,
             stdout |-> <<>>, stderr |-> <<>>, error_message |-> NoMsg]
Raised == [status |-> "RAISED", exit_code |-> NoExitCode, duration_s |-> 0,
           stdout |-> <<>>, stderr |-> <<>>, error_message |-> NoMsg]
IsResult(r) == r.status \in ResultStatus

\* str.strip(): drop leading and trailing whitespace.
RECURSIVE LStrip(_)
LStrip(s) == IF s # <<>> /\ Head(s) = " " THEN LStrip(Tail(s)) ELSE s
RECURSIVE RStrip(_)
RStrip(s) == IF s # <<>> /\ s[Len(s)] = " " THEN RStrip(SubSeq(s, 1, Len(s) - 1)) ELSE s
Strip(s) == RStrip(LStrip(s))

VARIABLES
    max_concurrent_tasks,  \* WorkflowManager.max_concurrent_tasks
    permits,               \* WorkflowManager.task_semaphore._value
    status,                \* current_state["status"]
    results,               \* current_state["results"]: context_id -> dumped ExecutionResult
    error,                 \* current_state has the key "error"
    tasks,                 \* every run_single_step task gather() made, in submission order
    wf_pc,                 \* position of the caller in run_workflow
    runs,                  \* run_workflow calls made so far
    sync_cmd,              \* the last execute_sync call: its argument, what
                           \* subprocess.run did and the two time.time() readings
    sync_ret,              \* what the last execute_sync call left to its caller
    ctor_args,             \* keyword arguments of the last ExecutionCommand(...) call
    ctor_ret,              \* what that call left to its caller
    os_environ,            \* os.environ of the process
    env_calls              \* per runner invocation: the command's env_vars and
                           \* the environment handed to the child

vars == <<max_concurrent_tasks, permits, status, results, error, tasks, wf_pc, runs,
          sync_cmd, sync_ret, ctor_args, ctor_ret, os_environ, env_calls>>
wfvars == <<max_concurrent_tasks, permits, status, results, error, tasks, wf_pc, runs>>
syncvars == <<sync_cmd, sync_ret>>
ctorvars == <<ctor_args, ctor_ret>>
envvars == <<os_environ, env_calls>>

\* ------------------------------------------------ ExecutionCommand(...)
\* Keyword arguments of a constructor call: <<>> for an argument that is
\* not given, <<v>> for the value v. args, cwd and env_vars have defaults
\* and are left out.
Kwargs ==
    [command : {<<>>} \cup {<<c>> : c \in Commands \cup {""}},
     timeout : {<<>>} \cup {<<t>> : t \in (0 - 1)..MaxTimeout},
     context_id : {<<>>} \cup {<<c>> : c \in CtxIds}]

NotConstructed ==
    [kind |-> "none", value |-> [command |-> "", context_id |-> "", timeout |-> 0]]
ValidationError ==
    [kind |-> "ValidationError", value |-> [command |-> "", context_id |-> "", timeout |-> 0]]

\* pydantic's validation of the declared fields: command and context_id
\* are required strings, timeout is default=300.0 with gt=0.
\* (contrast for C15: ge=0 in place of gt=0)
ExecutionCommandInit_Ge(kw) ==
    LET timeout == IF kw.timeout = <<>> THEN DefaultTimeout ELSE kw.timeout[1]
    IN IF kw.command = <<>> \/ kw.context_id = <<>> \/ ~(timeout >= 0)
       THEN ValidationError
       ELSE [kind |-> "ExecutionCommand",
             value |-> [command |-> kw.command[1], context_id |-> kw.context_id[1],
                        timeout |-> timeout]]
ExecutionCommandInit(kw) ==
    LET timeout == IF kw.timeout = <<>> THEN DefaultTimeout ELSE kw.timeout[1]
    IN IF kw.command = <<>> \/ kw.context_id = <<>> \/ ~(timeout > 0)
       THEN ValidationError
       ELSE [kind |-> "ExecutionCommand",
             value |-> [command |-> kw.command[1], context_id |-> kw.context_id[1],
                        timeout |-> timeout]]

\* one constructor call
Construct ==
    \E kw \in Kwargs :
        /\ ctor_args = <<>>
        /\ ctor_args' = <<kw>>
        /\ ctor_ret' = ExecutionCommandInit(kw)
        /\ UNCHANGED <<wfvars, syncvars, envvars>>

\* ------------------------------------------------ child environment
\* Environments and env_vars dicts: mappings from some variable names to
\* strings.
EnvKeys == {"HOME", "LANG"}
EnvValues == {"u", "v"}
Environs == UNION {[D -> EnvValues] : D \in SUBSET EnvKeys}

\* {**base, **over}: a new dict with the items of base, then those of over
\* (contrast for C25: the inherited value wins for a key present in both)
Overlay_BaseWins(base, over) ==
    [k \in DOMAIN base \cup DOMAIN over |-> IF k \in DOMAIN base THEN base[k] ELSE over[k]]
Overlay(base, over) ==
    [k \in DOMAIN base \cup DOMAIN over |-> IF k \in DOMAIN over THEN over[k] ELSE base[k]]

\* A runner invocation prepares the environment of its child: both
\* runners evaluate {**os.environ, **command_data.env_vars}, which reads
\* the two mappings and builds a third.
BuildEnv ==
    \E runner \in {"execute_sync", "execute_async"}, env_vars \in Environs :
        /\ Len(env_calls) < MaxEnvCalls
        /\ env_calls' = Append(env_calls, [runner |-> runner, env_vars |-> env_vars,
                                           env |-> Overlay(os_environ, env_vars)])
        /\ os_environ' = os_environ
        /\ UNCHANGED <<wfvars, syncvars, ctorvars>>

\* ------------------------------------------------ synchronous runner
\* What a child writes to a pipe, in chunks of one kind of byte:
\* whitespace, printable characters, and bytes that are not valid in the
\* locale's encoding. A chunk is larger than the pipe buffer.
BadByte == "BAD"
Bytes == {" ", "x", BadByte}
RECURSIVE SeqsUpTo(_, _)
SeqsUpTo(S, n) ==
    IF n = 0 THEN {<<>>}
    ELSE LET shorter == SeqsUpTo(S, n - 1)
         IN shorter \cup {Append(s, c) : s \in {t \in shorter : Len(t) = n - 1}, c \in S}
Outputs == SeqsUpTo(Bytes, MaxOut)

\* bytes.decode() with errors="strict": defined only on decodable input.
Decodable(b) == \A i \in 1..Len(b) : b[i] # BadByte

\* What subprocess.run(cmd_list, timeout=..., check=False,
\* capture_output=True, text=True) does: it returns a CompletedProcess
\* when the child exited in time and both streams decode as text, and
\* otherwise raises. exited tells whether the child had exited by itself.
SubprocessRun ==
    [kind : {"CompletedProcess"}, exited : {TRUE}, returncode : ExitCodes,
     stdout : {o \in Outputs : Decodable(o)}, stderr : {o \in Outputs : Decodable(o)}]
    \cup
    \* text=True decodes strictly after the child has exited
    {r \in [kind : {"UnicodeDecodeError"}, exited : {TRUE}, returncode : ExitCodes,
             stdout : Outputs, stderr : Outputs] :
        ~(Decodable(r.stdout) /\ Decodable(r.stderr))}
    \cup
    \* TimeoutExpired carries the bytes read so far (None when nothing was read)
    [kind : {"TimeoutExpired"}, exited : {FALSE}, returncode : {NoExitCode},
     stdout : Outputs, stderr : Outputs]
    \cup
    [kind : {"FileNotFoundError", "OSError"}, exited : {FALSE}, returncode : {NoExitCode},
     stdout : {<<>>}, stderr : {<<>>}]

\* result_kwargs as execute_sync initialises it
SyncInitKwargs ==
    [status |-> "FAILURE", exit_code |-> NoExitCode, stdout |-> <<>>, stderr |-> <<>>,
     error_message |-> NoMsg, duration_s |-> 0]

\* the try body after subprocess.run returned
SyncCompleted(kw, run) ==
    LET k1 == [kw EXCEPT !.stdout = Strip(run.stdout), !.stderr = Strip(run.stderr),
                         !.exit_code = run.returncode]
    IN IF run.returncode = 0
       THEN [k1 EXCEPT !.status = "SUCCESS"]
       ELSE [k1 EXCEPT !.status = "FAILURE", !.error_message = MsgNonZero(run.returncode)]

\* except subprocess.TimeoutExpired: a decode() that raises leaves the
\* handler at that line, and the return in finally discards the exception.
SyncTimeoutExpired(kw, run, command_data) ==
    LET k1 == [kw EXCEPT !.status = "TIMEOUT", !.error_message = MsgTimeout(command_data.timeout)]
    IN IF ~Decodable(run.stdout) THEN k1
       ELSE IF ~Decodable(run.stderr) THEN [k1 EXCEPT !.stdout = run.stdout]
       ELSE [k1 EXCEPT !.stdout = run.stdout, !.stderr = run.stderr]

\* (contrast for C27: the except Exception branch reports status ERROR)
SyncKwargs_ErrorStatus(command_data, run) ==
    CASE run.kind = "CompletedProcess" -> SyncCompleted(SyncInitKwargs, run)
      [] run.kind = "TimeoutExpired" -> SyncTimeoutExpired(SyncInitKwargs, run, command_data)
      [] run.kind = "FileNotFoundError" ->
            [SyncInitKwargs EXCEPT !.status = "FAILURE",
                                   !.error_message = MsgNotFound(command_data.command)]
      [] OTHER ->
            [SyncInitKwargs EXCEPT !.status = "ERROR", !.error_message = MsgUnexpected]
\* result_kwargs when the finally block is entered
SyncKwargs(command_data, run) ==
    CASE run.kind = "CompletedProcess" -> SyncCompleted(SyncInitKwargs, run)
      [] run.kind = "TimeoutExpired" -> SyncTimeoutExpired(SyncInitKwargs, run, command_data)
      [] run.kind = "FileNotFoundError" ->
            [SyncInitKwargs EXCEPT !.status = "FAILURE",
                                   !.error_message = MsgNotFound(command_data.command)]
      [] OTHER ->
            [SyncInitKwargs EXCEPT !.status = "FAILURE", !.error_message = MsgUnexpected]

\* execute_sync as a function of its argument, of what subprocess.run did
\* and of the two time.time() readings.
execute_sync(command_data, run, start_time, now) ==
    LET kw == [SyncKwargs(command_data, run) EXCEPT !.duration_s = now - start_time]
    IN IF ModelValidate(kw) THEN kw ELSE Raised

\* One call of execute_sync (it blocks: the whole call is one step). The
\* function keeps no state between calls, so one call is followed.
ExecuteSyncOn(command_data) ==
    \E run \in SubprocessRun, start_time \in Clock, now \in Clock :
        /\ sync_cmd = <<>>
        /\ sync_cmd' = <<[cmd |-> command_data, run |-> run,
                           start_time |-> start_time, now |-> now]>>
        /\ sync_ret' = execute_sync(command_data, run, start_time, now)
        /\ UNCHANGED <<wfvars, ctorvars, envvars>>
ExecuteSync == \E command_data \in ExecutionCommand : ExecuteSyncOn(command_data)

\* execute_sync is handed the command the constructor call returned
ExecuteSyncConstructed ==
    /\ ctor_ret.kind = "ExecutionCommand"
    /\ ExecuteSyncOn(ctor_ret.value)

\* ------------------------------------------------ asynchronous runner
\* A run_single_step task and the execute_async call inside it.
\*   pc: "pending" (not started, or waiting for a permit), "spawning"
\*       (awaiting create_subprocess_exec), "communicating" (awaiting
\*       wait_for(process.communicate())), "returned", "raised"
\*   proc: the child of this call: "none", "running", "signalled"
\*       (terminate()/kill() were sent, the child has not died yet), "exited"
\*   returncode: <<code>> once the child has exited by itself, else <<>>
\*   todo: chunks the child still has to write to its pipes before it exits
\*   nread: chunks communicate() has read from the pipes
\*   signals: the signals _terminate_process sent to the live child, in order
\*   how: the branch execute_async resolved on: "exit", "timeout",
\*       "fault" (an exception of the wait), "spawn" (no child), "cancel"
\*       (the task was cancelled at an await), "" before;
\*       "element" when run_single_step raised before calling it
\*   ret: what the task left to gather()
NewTask(cmd, run) ==
    [cmd |-> cmd, run |-> run, pc |-> "pending", proc |-> "none", returncode |-> <<>>,
     start_time |-> 0, todo |-> 0, nread |-> 0,
     signals |-> <<>>, how |-> "", ret |-> NoResult]

\* bytes.decode(errors="ignore"): undecodable bytes are dropped.
DecodeIgnore(b) == SelectSeq(b, LAMBDA c : c # BadByte)

\* what communicate() can return as <<stdout, stderr>> when it has read n
\* chunks from the two pipes
AsyncOutputs(n) == {o \in Outputs \X Outputs : Len(o[1]) + Len(o[2]) = n}

\* process.communicate() reads both pipes while it waits for the child to
\* exit: the pipes of a task are drained as long as it awaits communicate().
\* (contrast for C13: wait() first, read the pipes after the exit)
Draining_AfterExit(task) == task.pc = "communicating" /\ task.proc = "exited"
Draining(task) == task.pc = "communicating"

\* result_kwargs as execute_async initialises it
AsyncInitKwargs ==
    [status |-> "FAILURE", exit_code |-> NoExitCode, stdout |-> <<>>, stderr |-> <<>>,
     error_message |-> NoMsg, duration_s |-> 0]

\* the child as execute_async leaves it when it sends no signal
Untouched(proc) == [proc |-> proc, signals |-> <<>>]

\* _terminate_process(process), as the set of its outcomes: the state of
\* the child it leaves and the signals that reached the live child.
\* returncode is process.returncode, <<>> for None. terminate() sends
\* SIGTERM; process.returncode cannot change within the same loop step, so
\* kill() is called next, and it sends SIGKILL unless the child has died of
\* SIGTERM in between. Neither call waits for the child to die, and a
\* child that is already dead is sent nothing.
\* (contrast for C12: a ladder that goes straight to SIGKILL)
TerminateProcess_KillOnly(proc, returncode) ==
    IF returncode = <<>> /\ proc = "running"
    THEN {[proc |-> "signalled", signals |-> <<"SIGKILL">>]}
    ELSE {Untouched(proc)}
TerminateProcess(proc, returncode) ==
    IF returncode = <<>> /\ proc = "running"
    THEN {[proc |-> "signalled", signals |-> <<"SIGTERM", "SIGKILL">>],
          [proc |-> "exited", signals |-> <<"SIGTERM">>]}
    ELSE {Untouched(proc)}

\* The finally block of execute_async up to model_validate. spawned says
\* that process is not None, returncode is process.returncode.
AsyncFinally(kw, spawned, returncode, stdout_bytes, stderr_bytes, start_time, now) ==
    LET k1 == [kw EXCEPT !.duration_s = now - start_time]
        k2 == IF stdout_bytes # <<>>
              THEN [k1 EXCEPT !.stdout = Strip(DecodeIgnore(stdout_bytes))] ELSE k1
        k3 == IF stderr_bytes # <<>>
              THEN [k2 EXCEPT !.stderr = Strip(DecodeIgnore(stderr_bytes))] ELSE k2
    IN IF k3.status \notin {"TIMEOUT", "FAILURE"} /\ spawned /\ returncode # <<>>
       THEN IF returncode[1] = 0
            THEN [k3 EXCEPT !.status = "SUCCESS"]
            ELSE [k3 EXCEPT !.status = "FAILURE",
                            !.error_message = IF k3.error_message = NoMsg
                                              THEN MsgNonZero(returncode[1])
                                              ELSE k3.error_message]
       ELSE k3

\* contrast for C26: acquire() and release() called around the body
\* without a with block, so that an exception skips the release
Resolve_LeakOnRaise(i, how, kw, child) ==
    /\ IF ModelValidate(kw)
       THEN /\ permits' = permits + 1
            /\ tasks' = [tasks EXCEPT ![i].pc = "returned", ![i].ret = kw,
                                      ![i].how = how,
                                      ![i].proc = child.proc,
                                      ![i].signals = child.signals,
                                      ![i].start_time = 0]
            /\ results' = [c \in DOMAIN results \cup {tasks[i].cmd.context_id} |->
                              IF c = tasks[i].cmd.context_id THEN kw ELSE results[c]]
       ELSE /\ permits' = permits
            /\ tasks' = [tasks EXCEPT ![i].pc = "raised", ![i].ret = Raised,
                                      ![i].how = how,
                                      ![i].proc = child.proc,
                                      ![i].signals = child.signals,
                                      ![i].start_time = 0]
            /\ results' = results
    /\ UNCHANGED <<max_concurrent_tasks, status, error, wf_pc, runs>>
    /\ UNCHANGED <<syncvars, ctorvars, envvars>>
\* execute_async leaves kw to run_single_step, which records it under the
\* command's context_id and leaves the async-with block; a model_validate
\* that raises leaves both functions, and the block releases the permit.
Resolve(i, how, kw, child) ==
    /\ permits' = permits + 1
    /\ IF ModelValidate(kw)
       THEN /\ tasks' = [tasks EXCEPT ![i].pc = "returned", ![i].ret = kw,
                                      ![i].how = how,
                                      ![i].proc = child.proc,
                                      ![i].signals = child.signals,
                                      ![i].start_time = 0]
            /\ results' = [c \in DOMAIN results \cup {tasks[i].cmd.context_id} |->
                              IF c = tasks[i].cmd.context_id THEN kw ELSE results[c]]
       ELSE /\ tasks' = [tasks EXCEPT ![i].pc = "raised", ![i].ret = Raised,
                                      ![i].how = how,
                                      ![i].proc = child.proc,
                                      ![i].signals = child.signals,
                                      ![i].start_time = 0]
            /\ results' = results
    /\ UNCHANGED <<max_concurrent_tasks, status, error, wf_pc, runs>>
    /\ UNCHANGED <<syncvars, ctorvars, envvars>>

\* the outcome of one command of the batch of task i is FAILURE or TIMEOUT
SiblingFailed(i) ==
    \E j \in DOMAIN tasks :
        /\ j # i
        /\ tasks[j].run = tasks[i].run
        /\ tasks[j].ret.status \in {"FAILURE", "TIMEOUT"}

\* contrast for C20: waiting commands are skipped once a sibling failed
Acquire_SkipAfterFailure(i) ==
    /\ tasks[i].pc = "pending"
    /\ \A j \in 1..(i - 1) : tasks[j].pc # "pending"
    /\ permits > 0
    /\ ~SiblingFailed(i)
    /\ permits' = permits - 1
    /\ \E start_time \in Clock :
        tasks' = [tasks EXCEPT ![i].pc = "spawning", ![i].start_time = start_time]
    /\ UNCHANGED <<max_concurrent_tasks, status, results, error, wf_pc, runs>>
    /\ UNCHANGED <<syncvars, ctorvars, envvars>>
\* contrast for C24: a runner that blocks the loop while a child runs,
\* so that no command starts while another one is in flight
Acquire_Blocking(i) ==
    /\ tasks[i].pc = "pending"
    /\ \A j \in 1..(i - 1) : tasks[j].pc # "pending"
    /\ permits > 0
    /\ \A j \in DOMAIN tasks : tasks[j].pc \notin {"spawning", "communicating"}
    /\ permits' = permits - 1
    /\ \E start_time \in Clock :
        tasks' = [tasks EXCEPT ![i].pc = "spawning", ![i].start_time = start_time]
    /\ UNCHANGED <<max_concurrent_tasks, status, results, error, wf_pc, runs>>
    /\ UNCHANGED <<syncvars, ctorvars, envvars>>
\* run_single_step starts: asyncio.Semaphore hands permits out in the
\* order the tasks asked, which is the order gather() created them in.
\* With a permit the task prints command_data.context_id and enters
\* execute_async, which reads start_time and awaits create_subprocess_exec.
\* An element without the attribute makes the print raise AttributeError:
\* the task leaves the async-with block, which releases the permit.
Acquire(i) ==
    /\ tasks[i].pc = "pending"
    /\ \A j \in 1..(i - 1) : tasks[j].pc # "pending"
    /\ permits > 0
    /\ IF tasks[i].cmd = NotACommand
       THEN /\ permits' = permits
            /\ tasks' = [tasks EXCEPT ![i].pc = "raised", ![i].ret = Raised,
                                      ![i].how = "element"]
       ELSE /\ permits' = permits - 1
            /\ \E start_time \in Clock :
                tasks' = [tasks EXCEPT ![i].pc = "spawning", ![i].start_time = start_time]
    /\ UNCHANGED <<max_concurrent_tasks, status, results, error, wf_pc, runs>>
    /\ UNCHANGED <<syncvars, ctorvars, envvars>>

\* create_subprocess_exec returns the running child, a program that
\* writes some output to its pipes and exits
SpawnOk(i) ==
    /\ tasks[i].pc = "spawning"
    /\ \E todo \in 0..MaxOut :
        tasks' = [tasks EXCEPT ![i].pc = "communicating", ![i].proc = "running",
                               ![i].todo = todo]
    /\ UNCHANGED <<max_concurrent_tasks, permits, status, results, error, wf_pc, runs>>
    /\ UNCHANGED <<syncvars, ctorvars, envvars>>

\* create_subprocess_exec raises: the outer except Exception branch
SpawnFails(i) ==
    /\ tasks[i].pc = "spawning"
    /\ \E exc \in {"FileNotFoundError"}, now \in Clock :
        LET kw == [AsyncInitKwargs EXCEPT !.status = "FAILURE",
                                          !.error_message = MsgFailedToStart(exc)]
        IN Resolve(i, "spawn", AsyncFinally(kw, FALSE, <<>>, <<>>, <<>>, tasks[i].start_time, now),
                   Untouched(tasks[i].proc))

\* the operating system: the child writes a chunk to one of its pipes.
\* The chunk does not fit the pipe buffer, so the write completes only
\* while the parent reads the pipe.
ChildWrite(i) ==
    /\ tasks[i].proc = "running"
    /\ Draining(tasks[i])
    /\ tasks[i].todo > 0
    /\ tasks' = [tasks EXCEPT ![i].todo = @ - 1, ![i].nread = @ + 1]
    /\ UNCHANGED <<max_concurrent_tasks, permits, status, results, error, wf_pc, runs>>
    /\ UNCHANGED <<syncvars, ctorvars, envvars>>

\* the operating system: a running child that has written its output
\* exits by itself
ChildExit(i) ==
    /\ tasks[i].proc = "running"
    /\ tasks[i].todo = 0
    /\ \E code \in ExitCodes :
        tasks' = [tasks EXCEPT ![i].proc = "exited", ![i].returncode = <<code>>]
    /\ UNCHANGED <<max_concurrent_tasks, permits, status, results, error, wf_pc, runs>>
    /\ UNCHANGED <<syncvars, ctorvars, envvars>>

\* the operating system: a signalled child dies
ChildDies(i) ==
    /\ tasks[i].proc = "signalled"
    /\ tasks' = [tasks EXCEPT ![i].proc = "exited"]
    /\ UNCHANGED <<max_concurrent_tasks, permits, status, results, error, wf_pc, runs>>
    /\ UNCHANGED <<syncvars, ctorvars, envvars>>

\* wait_for(process.communicate()) returns within the timeout: the child
\* has exited and both pipes were read to their end
CommunicateDone(i) ==
    /\ tasks[i].pc = "communicating"
    /\ tasks[i].proc = "exited"
    /\ \E out \in AsyncOutputs(tasks[i].nread), now \in Clock :
        LET kw == [AsyncInitKwargs EXCEPT !.exit_code = tasks[i].returncode[1]]
        IN Resolve(i, "exit",
                   AsyncFinally(kw, TRUE, tasks[i].returncode, out[1], out[2],
                                tasks[i].start_time, now),
                   Untouched(tasks[i].proc))

\* contrast for C28: the bytes communicate() had read are kept on timeout
CommunicateTimeout_PartialOutput(i) ==
    /\ tasks[i].pc = "communicating"
    /\ \E now \in Clock, child \in TerminateProcess(tasks[i].proc, <<>>),
          out \in AsyncOutputs(tasks[i].nread) :
        LET kw == [AsyncInitKwargs EXCEPT !.status = "TIMEOUT",
                                          !.error_message = MsgTimeout(tasks[i].cmd.timeout)]
        IN Resolve(i, "timeout",
                   AsyncFinally(kw, TRUE, <<>>, out[1], out[2], tasks[i].start_time, now),
                   child)
\* wait_for raises TimeoutError: communicate() had not returned, so the
\* loop has not seen the child exit and process.returncode is None. The
\* bytes communicate() had read are lost with it: stdout_bytes and
\* stderr_bytes are still the empty values of line 59.
CommunicateTimeout(i) ==
    /\ tasks[i].pc = "communicating"
    /\ \E now \in Clock, child \in TerminateProcess(tasks[i].proc, <<>>) :
        LET kw == [AsyncInitKwargs EXCEPT !.status = "TIMEOUT",
                                          !.error_message = MsgTimeout(tasks[i].cmd.timeout)]
        IN Resolve(i, "timeout", AsyncFinally(kw, TRUE, <<>>, <<>>, <<>>, tasks[i].start_time, now),
                   child)

\* the wait raises another Exception: the inner except Exception branch
CommunicateFault(i) ==
    /\ tasks[i].pc = "communicating"
    /\ \E now \in Clock, child \in TerminateProcess(tasks[i].proc, <<>>) :
        LET kw == [AsyncInitKwargs EXCEPT !.status = "FAILURE",
                                          !.error_message = MsgUnexpected]
        IN Resolve(i, "fault", AsyncFinally(kw, TRUE, <<>>, <<>>, <<>>, tasks[i].start_time, now),
                   child)

\* The task that runs execute_async is cancelled while it awaits
\* create_subprocess_exec or wait_for(process.communicate()):
\* CancelledError is raised at the await. It is a BaseException, so none
\* of the except clauses takes it, no _terminate_process call is made and
\* result_kwargs is as initialised; the finally block runs and its return
\* discards the exception. A cancelled create_subprocess_exec leaves no child.
Cancel(i) ==
    /\ tasks[i].pc \in {"spawning", "communicating"}
    /\ \E now \in Clock :
        Resolve(i, "cancel",
                AsyncFinally(AsyncInitKwargs, tasks[i].proc # "none", tasks[i].returncode,
                             <<>>, <<>>, tasks[i].start_time, now),
                Untouched(tasks[i].proc))

\* ------------------------------------------------ workflow manager
\* command_list values handed to run_workflow: lists of ExecutionCommand
\* and of other values. NotIterable is the call with a value that is no
\* list at all (None, a number).
Batches == UNION {[1..n -> ExecutionCommand \cup {NotACommand}] : n \in 0..MaxBatch}

\* a task of the batch gather() is waiting for
Current(i) == tasks[i].run = runs
CurrentTasks == {i \in DOMAIN tasks : Current(i)}

\* run_workflow up to the await of gather(): the status becomes RUNNING
\* and one task per command is created. gather() of no tasks is already
\* done, so with an empty list the call runs to its return.
RunWorkflow(command_list) ==
    /\ wf_pc # "gathering"
    /\ runs' = runs + 1
    /\ tasks' = tasks \o [k \in 1..Len(command_list) |-> NewTask(command_list[k], runs + 1)]
    /\ IF command_list = <<>>
       THEN status' = "SUCCESS" /\ wf_pc' = "returned"
       ELSE status' = "RUNNING" /\ wf_pc' = "gathering"
    /\ UNCHANGED <<max_concurrent_tasks, permits, results, error>>
    /\ UNCHANGED <<syncvars, ctorvars, envvars>>

\* run_workflow(command_list) with a command_list that cannot be iterated:
\* the status becomes RUNNING, and the list comprehension of line 53,
\* which is before the try block, raises TypeError out of run_workflow.
RunWorkflowNotIterable ==
    /\ wf_pc # "gathering"
    /\ runs' = runs + 1
    /\ status' = "RUNNING"
    /\ wf_pc' = "raised"
    /\ UNCHANGED <<max_concurrent_tasks, permits, results, error, tasks>>
    /\ UNCHANGED <<syncvars, ctorvars, envvars>>

\* A permit is free and a task waits for one. release() queues the
\* wake-up of the waiting task before the task that released the permit
\* finishes, so the waiting task runs before anything that follows from
\* the finished task, the resumption of gather()'s caller included.
TaskReady == permits > 0 /\ \E i \in DOMAIN tasks : tasks[i].pc = "pending"

\* gather() delivers the list of results: every task of the batch returned
GatherDone ==
    /\ wf_pc = "gathering"
    /\ ~TaskReady
    /\ \A i \in CurrentTasks : tasks[i].pc = "returned"
    /\ status' = IF \E i \in CurrentTasks : tasks[i].ret.status # "SUCCESS"
                 THEN "COMPLETED_WITH_ERRORS" ELSE "SUCCESS"
    /\ wf_pc' = "returned"
    /\ UNCHANGED <<max_concurrent_tasks, permits, results, error, tasks, runs>>
    /\ UNCHANGED <<syncvars, ctorvars, envvars>>

\* gather() delivers the first exception of a task; the other tasks of the
\* batch are not cancelled
GatherRaises ==
    /\ wf_pc = "gathering"
    /\ ~TaskReady
    /\ \E i \in CurrentTasks : tasks[i].pc = "raised"
    /\ status' = "FATAL_ERROR"
    /\ error' = TRUE
    /\ wf_pc' = "returned"
    /\ UNCHANGED <<max_concurrent_tasks, permits, results, tasks, runs>>
    /\ UNCHANGED <<syncvars, ctorvars, envvars>>

\* ------------------------------------------------ specifications
\* job_config: with or without the key "max_concurrent_tasks". A negative
\* value makes asyncio.Semaphore raise, and no manager exists.
JobConfigs == {<<>>} \cup {<<n>> : n \in 0..MaxPermits}
JobConfigGet(job_config) ==
    IF job_config = <<>> THEN DefaultMaxConcurrentTasks ELSE job_config[1]

\* WorkflowManager.__init__; no execute_sync call made yet
ManagerInit ==
    /\ \E job_config \in JobConfigs :
        /\ max_concurrent_tasks = JobConfigGet(job_config)
        /\ permits = JobConfigGet(job_config)
    /\ status = "INITIALIZED"
    /\ results = <<>>
    /\ error = FALSE
    /\ tasks = <<>>
    /\ wf_pc = "idle"
    /\ runs = 0
    /\ sync_cmd = <<>>
    /\ sync_ret = NoResult
    /\ ctor_args = <<>>
    /\ ctor_ret = NotConstructed

\* a process started with an empty environment, no runner invoked yet
Init ==
    /\ ManagerInit
    /\ os_environ = <<>>
    /\ env_calls = <<>>

\* what the loop and the operating system do with the tasks of a manager
TaskNext ==
    \/ \E i \in DOMAIN tasks : Acquire(i)
    \/ \E i \in DOMAIN tasks : SpawnOk(i)
    \/ \E i \in DOMAIN tasks : SpawnFails(i)
    \/ \E i \in DOMAIN tasks : ChildWrite(i)
    \/ \E i \in DOMAIN tasks : ChildExit(i)
    \/ \E i \in DOMAIN tasks : ChildDies(i)
    \/ \E i \in DOMAIN tasks : CommunicateDone(i)
    \/ \E i \in DOMAIN tasks : CommunicateTimeout(i)
    \/ \E i \in DOMAIN tasks : CommunicateFault(i)
    \/ GatherDone
    \/ GatherRaises

\* the calls followed on one manager stay within MaxRuns and MaxTasks
WithinBounds(command_list) ==
    runs < MaxRuns /\ Len(tasks) + Len(command_list) <= MaxTasks

Next ==
    \/ \E command_list \in Batches :
        WithinBounds(command_list) /\ RunWorkflow(command_list)
    \/ WithinBounds(<<>>) /\ RunWorkflowNotIterable
    \/ TaskNext

Spec == Init /\ [][Next]_vars

\* Fair scheduling: the loop runs every task that can run and delivers
\* gather()'s outcome; a child exits or its timeout fires.
TaskStep(i) ==
    /\ i \in DOMAIN tasks
    /\ \/ Acquire(i) \/ SpawnOk(i) \/ SpawnFails(i) \/ ChildWrite(i) \/ ChildExit(i)
       \/ ChildDies(i)
       \/ CommunicateDone(i) \/ CommunicateTimeout(i) \/ CommunicateFault(i)
FairSpec ==
    /\ Spec
    /\ \A i \in 1..MaxTasks : WF_vars(TaskStep(i))
    /\ WF_vars(GatherDone \/ GatherRaises)

\* the synchronous runner on its own
SyncNext == ExecuteSync
SyncSpec == Init /\ [][SyncNext]_vars

\* One run_workflow call on a manager, under fair scheduling
BatchNext ==
    \/ \E command_list \in Batches : runs = 0 /\ RunWorkflow(command_list)
    \/ TaskNext
BatchFairSpec ==
    /\ Init /\ [][BatchNext]_vars
    /\ \A i \in 1..MaxTasks : WF_vars(TaskStep(i))
    /\ WF_vars(GatherDone \/ GatherRaises)

\* One run_workflow call in which only the command submitted second is
\* sure to make progress: the child of the first may run for ever, and its
\* timeout may be arbitrarily long.
FanOutFairSpec == Init /\ [][BatchNext]_vars /\ WF_vars(TaskStep(2))

\* A manager with one permit that is handed one list of up to
\* MaxSerialBatch elements, at most MaxTasks of them ExecutionCommands:
\* the commands run one after the other.
SerialInit == Init /\ max_concurrent_tasks = 1
NumCommands(list) == Cardinality({k \in DOMAIN list : list[k] \in ExecutionCommand})
SerialBatches ==
    {list \in UNION {[1..n -> ExecutionCommand \cup {NotACommand}] : n \in 0..MaxSerialBatch} :
        NumCommands(list) <= MaxTasks}
SerialNext ==
    \/ \E command_list \in SerialBatches : runs = 0 /\ RunWorkflow(command_list)
    \/ TaskNext
SerialSpec == SerialInit /\ [][SerialNext]_vars

\* A manager with one permit that is used twice: for a batch of one
\* command and then for a batch of two commands that share a context_id,
\* another one than the first batch used
ReuseNext ==
    \/ \E command_data \in ExecutionCommand : runs = 0 /\ RunWorkflow(<<command_data>>)
    \/ \E command_data \in ExecutionCommand :
        /\ runs = 1
        /\ \A i \in DOMAIN tasks : tasks[i].cmd.context_id # command_data.context_id
        /\ RunWorkflow(<<command_data, command_data>>)
    \/ TaskNext
ReuseSpec == SerialInit /\ [][ReuseNext]_vars

\* The asynchronous runner on its own: one execute_async call, made
\* through a manager with the default configuration that is handed a
\* single command.
RunnersInit == Init /\ max_concurrent_tasks = DefaultMaxConcurrentTasks
AsyncNext ==
    \/ \E command_data \in ExecutionCommand : runs = 0 /\ RunWorkflow(<<command_data>>)
    \/ TaskNext
AsyncSpec == RunnersInit /\ [][AsyncNext]_vars

\* The child and the wait for it make progress: the operating system runs
\* a child that can write or exit, and the loop resumes a communicate()
\* that has completed. The timeout may be arbitrarily long.
ChildStep(i) ==
    /\ i \in DOMAIN tasks
    /\ ChildWrite(i) \/ ChildExit(i) \/ CommunicateDone(i)
AsyncFairSpec == AsyncSpec /\ \A i \in 1..MaxTasks : WF_vars(ChildStep(i))

\* One execute_async call whose task may be cancelled at any of its awaits
CancelNext == AsyncNext \/ \E i \in DOMAIN tasks : Cancel(i)
CancelSpec == RunnersInit /\ [][CancelNext]_vars

\* a caller constructs an ExecutionCommand and hands it to execute_sync
ConstructNext == Construct \/ ExecuteSyncConstructed
ConstructSpec == RunnersInit /\ [][ConstructNext]_vars

\* the environments of the children of up to MaxEnvCalls runner
\* invocations, in a process with any inherited environment
EnvInit ==
    /\ ManagerInit
    /\ max_concurrent_tasks = DefaultMaxConcurrentTasks
    /\ os_environ \in Environs
    /\ env_calls = <<>>
EnvNext == BuildEnv
EnvSpec == EnvInit /\ [][EnvNext]_vars

\* both runners side by side: one execute_sync call and one execute_async call
RunnersNext == ExecuteSync \/ AsyncNext
RunnersSpec == RunnersInit /\ [][RunnersNext]_vars

\* ------------------------------------------------ claims
\* children that were spawned and have not actually exited
ActiveChildren == {i \in DOMAIN tasks : tasks[i].proc \in {"running", "signalled"}}

\* every ExecutionResult a runner has returned
Returned ==
    {tasks[i].ret : i \in {j \in DOMAIN tasks : IsResult(tasks[j].ret)}}
    \cup (IF IsResult(sync_ret) THEN {sync_ret} ELSE {})

\* the child of task i exited by itself with this code before the timeout
ExitedWith(i, code) == tasks[i].how = "exit" /\ tasks[i].returncode = <<code>>

\* C1: during a workflow run the number of children that were spawned and
\* have not yet exited, those signalled on timeout included, is at most
\* max_concurrent_tasks.
C1_ActiveChildrenBounded ==
    wf_pc = "gathering" => Cardinality(ActiveChildren) <= max_concurrent_tasks

\* C2: under fair scheduling every submitted command eventually has its
\* outcome recorded in results, and run_workflow eventually returns.
C2_EveryCommandResolves ==
    /\ \A i \in 1..MaxTasks :
        []((i \in DOMAIN tasks /\ tasks[i].cmd \in ExecutionCommand) =>
            <>(/\ i \in DOMAIN tasks
               /\ IsResult(tasks[i].ret)
               /\ tasks[i].cmd.context_id \in DOMAIN results))
    /\ [](wf_pc = "gathering" => <>(wf_pc = "returned"))

\* C3: when run_workflow has returned SUCCESS or COMPLETED_WITH_ERRORS, the
\* keys of results are exactly the context_ids of the submitted commands.
C3_ResultsKeysAreTheBatch ==
    (wf_pc = "returned" /\ status \in {"SUCCESS", "COMPLETED_WITH_ERRORS"})
        => DOMAIN results = {tasks[i].cmd.context_id : i \in CurrentTasks}

\* C4: if every command of a non-empty batch spawned and its child exited
\* with code 0 before the timeout, run_workflow returns SUCCESS with one
\* entry per command.
C4_AllZeroGivesSuccess ==
    (/\ wf_pc = "returned"
     /\ CurrentTasks # {}
     /\ \A i \in CurrentTasks : ExitedWith(i, 0))
        => /\ status = "SUCCESS"
           /\ \A i \in CurrentTasks : tasks[i].cmd.context_id \in DOMAIN results

\* C5: when the child exits before the timeout, execute_async returns the
\* child's code as exit_code, SUCCESS without error_message for code 0 and
\* FAILURE with the message naming the code otherwise.
C5_AsyncNormalExit ==
    \A i \in DOMAIN tasks : \A code \in ExitCodes :
        (ExitedWith(i, code) /\ IsResult(tasks[i].ret))
            => /\ tasks[i].ret.exit_code = code
               /\ IF code = 0
                  THEN tasks[i].ret.status = "SUCCESS" /\ tasks[i].ret.error_message = NoMsg
                  ELSE /\ tasks[i].ret.status = "FAILURE"
                       /\ tasks[i].ret.error_message = MsgNonZero(code)

\* C6: when the child of execute_sync exits by itself, exit_code is the
\* child's code, status is SUCCESS without error_message exactly for code
\* 0, and otherwise FAILURE with the message naming the code.
C6_SyncNormalExit ==
    \A call \in {sync_cmd[k] : k \in DOMAIN sync_cmd} :
        (call.run.exited /\ IsResult(sync_ret))
            => /\ sync_ret.exit_code = call.run.returncode
               /\ (sync_ret.status = "SUCCESS") = (call.run.returncode = 0)
               /\ IF call.run.returncode = 0
                  THEN sync_ret.error_message = NoMsg
                  ELSE /\ sync_ret.status = "FAILURE"
                       /\ sync_ret.error_message = MsgNonZero(call.run.returncode)

\* C7: in every ExecutionResult a runner returns, status is not SUCCESS
\* exactly when error_message is present.
C7_ErrorMessageIffNotSuccess ==
    \A r \in Returned : (r.status # "SUCCESS") = (r.error_message # NoMsg)

\* C8: once all commands resolved without an orchestration-level fault the
\* final status is COMPLETED_WITH_ERRORS if some returned outcome is not
\* SUCCESS and SUCCESS otherwise; when exactly one child exited non-zero
\* and the others exited with 0, that entry is FAILURE, every other entry
\* is SUCCESS and the status is COMPLETED_WITH_ERRORS.
C8_FinalStatusFromOutcomes ==
    (/\ wf_pc = "returned"
     /\ status # "FATAL_ERROR"
     /\ \A i \in CurrentTasks : IsResult(tasks[i].ret))
        => /\ status = IF \E i \in CurrentTasks : tasks[i].ret.status # "SUCCESS"
                       THEN "COMPLETED_WITH_ERRORS" ELSE "SUCCESS"
           /\ \A f \in CurrentTasks :
                (/\ \E code \in ExitCodes \ {0} : ExitedWith(f, code)
                 /\ \A i \in CurrentTasks \ {f} :
                        /\ ExitedWith(i, 0)
                        /\ tasks[i].cmd.context_id # tasks[f].cmd.context_id)
                    => /\ status = "COMPLETED_WITH_ERRORS"
                       /\ results[tasks[f].cmd.context_id].status = "FAILURE"
                       /\ \A i \in CurrentTasks \ {f} :
                            results[tasks[i].cmd.context_id].status = "SUCCESS"

\* C9: execute_sync and execute_async always return an ExecutionResult:
\* no call leaves an exception to its caller.
C9_NoExceptionLeavesARunner ==
    /\ sync_ret # Raised
    /\ \A i \in DOMAIN tasks : tasks[i].cmd \in ExecutionCommand => tasks[i].ret # Raised

\* C10: when execute_async has returned an outcome for a request whose
\* child was spawned, the child is no longer running.
C10_ChildGoneAtReturn ==
    \A i \in DOMAIN tasks :
        (IsResult(tasks[i].ret) /\ tasks[i].proc # "none") => tasks[i].proc = "exited"

\* the command was still running when its timeout expired
AsyncTimedOut(i) == tasks[i].how = "timeout"
SyncTimedOut(call) == call.run.kind = "TimeoutExpired"

C12_TerminationLadder ==
    [][\A i \in DOMAIN tasks :
        /\ (tasks[i].pc = "communicating" /\ tasks'[i].how = "timeout")
            => LET sent == tasks'[i].signals
               IN /\ sent \in {<<>>, <<"SIGTERM">>, <<"SIGTERM", "SIGKILL">>}
                  /\ tasks[i].proc = "running" => sent # <<>>
                  /\ sent = <<"SIGTERM", "SIGKILL">> => tasks'[i].proc = "signalled"
                  /\ sent = <<"SIGTERM">> => tasks'[i].proc = "exited"
        /\ tasks[i].pc \in {"returned", "raised"}
            => tasks'[i].signals = tasks[i].signals]_vars

\* a timed-out call has sent both signals to its child
C12_Witness ==
    \E i \in DOMAIN tasks :
        /\ AsyncTimedOut(i)
        /\ tasks[i].pc = "returned"
        /\ tasks[i].signals = <<"SIGTERM", "SIGKILL">>

\* C13: execute_async drains the pipes while it waits for the child, so a
\* call that waits for a child, however much the child writes, resolves
\* even when the timeout is arbitrarily long: the child is never stuck on
\* a full pipe that nobody reads.
C13_DrainedWhileWaiting ==
    \A i \in 1..MaxTasks :
        []((i \in DOMAIN tasks /\ tasks[i].pc = "communicating")
            => <>(i \in DOMAIN tasks /\ tasks[i].pc \in {"returned", "raised"}))

\* a child wrote more than the pipe buffer holds, exited, and the call
\* returned on the exit
C13_Witness ==
    \E i \in DOMAIN tasks :
        /\ tasks[i].how = "exit"
        /\ tasks[i].nread > 0
        /\ tasks[i].pc = "returned"

\* the executable of the command does not exist: subprocess.run, or
\* create_subprocess_exec, raised FileNotFoundError
AsyncNotFound(i) == tasks[i].how = "spawn"
SyncNotFound(call) == call.run.kind = "FileNotFoundError"

\* C14: when the executable does not exist, the outcome execute_sync or
\* execute_async returns has status FAILURE, exit_code -1 and the
\* 'Executable not found' message naming the command.
C14_NotFoundOutcome ==
    /\ \A i \in DOMAIN tasks :
        (AsyncNotFound(i) /\ IsResult(tasks[i].ret))
            => /\ tasks[i].ret.status = "FAILURE"
               /\ tasks[i].ret.exit_code = NoExitCode
               /\ tasks[i].ret.error_message.kind = "Executable not found"
               /\ tasks[i].ret.error_message.arg = tasks[i].cmd.command
    /\ \A call \in {sync_cmd[k] : k \in DOMAIN sync_cmd} :
        (SyncNotFound(call) /\ IsResult(sync_ret))
            => /\ sync_ret.status = "FAILURE"
               /\ sync_ret.exit_code = NoExitCode
               /\ sync_ret.error_message.kind = "Executable not found"
               /\ sync_ret.error_message.arg = call.cmd.command

\* C15: ExecutionCommand(...) with timeout <= 0 raises a validation error,
\* so no runner is called with a non-positive timeout; with timeout left
\* out and the required fields given, the command has timeout 300.
C15_TimeoutValidated ==
    /\ \A kw \in {ctor_args[k] : k \in DOMAIN ctor_args} :
        /\ (kw.timeout # <<>> /\ kw.timeout[1] <= 0) => ctor_ret = ValidationError
        /\ (kw.timeout = <<>> /\ kw.command # <<>> /\ kw.context_id # <<>>)
            => /\ ctor_ret.kind = "ExecutionCommand"
               /\ ctor_ret.value.timeout = 300
    /\ \A call \in {sync_cmd[k] : k \in DOMAIN sync_cmd} : call.cmd.timeout > 0

\* a constructor call with timeout = 0 has raised
C15_Witness ==
    /\ ctor_args # <<>>
    /\ ctor_args[1].timeout = <<0>>
    /\ ctor_args[1].command # <<>>
    /\ ctor_args[1].context_id # <<>>
    /\ ctor_ret = ValidationError

\* C16: ExecutionCommand(...) with an empty command string raises a
\* validation error.
C16_EmptyCommandRejected ==
    \A kw \in {ctor_args[k] : k \in DOMAIN ctor_args} :
        kw.command = <<"">> => ctor_ret = ValidationError

\* the terminal values of current_state["status"]
Terminal == {"SUCCESS", "COMPLETED_WITH_ERRORS", "FATAL_ERROR"}

\* C17: the status only moves INITIALIZED -> RUNNING -> terminal, and a
\* terminal status never changes again, whatever is done with the manager.
\* (run_workflow of an empty list passes through RUNNING within its step.)
C17_StatusTransitions ==
    [][/\ status \in Terminal => status' = status
       /\ status = "INITIALIZED" => status' \in {"INITIALIZED", "RUNNING", "SUCCESS"}
       /\ status = "RUNNING" => status' \in {"RUNNING"} \cup Terminal]_vars

\* an element of the batch that is not an ExecutionCommand made its task raise
ElementFault == \E i \in CurrentTasks : tasks[i].how = "element"

\* C18: an orchestration-level fault, a command_list that is not iterable
\* or that holds an element that is not an ExecutionCommand, makes
\* run_workflow return with status FATAL_ERROR and the 'error' field set,
\* and leaves results as it was.
C18_FaultGivesFatalError ==
    [][/\ wf_pc' # "raised"
       /\ (wf_pc = "gathering" /\ wf_pc' = "returned" /\ ElementFault)
            => /\ status' = "FATAL_ERROR"
               /\ error'
               /\ results' = results]_vars

\* execute_async is running for task i
InFlight(i) == tasks[i].pc \in {"spawning", "communicating"}

\* C19: once the status is FATAL_ERROR no command that is still waiting
\* for a permit is handed to execute_async, while a command that is
\* running keeps running and has its outcome recorded when it returns.
C19_NoDispatchAfterFatal ==
    [][status = "FATAL_ERROR" =>
        \A i \in DOMAIN tasks :
            /\ tasks[i].pc = "pending" => tasks'[i].pc # "spawning"
            /\ InFlight(i) =>
                \/ InFlight(i)'
                \/ tasks'[i].pc = "raised"
                \/ /\ tasks'[i].pc = "returned"
                   /\ tasks[i].cmd.context_id \in DOMAIN results'
                   /\ results'[tasks[i].cmd.context_id] = tasks'[i].ret]_vars

C21_ResultsArePerBatch ==
    wf_pc \in {"gathering", "returned"}
        => \A c \in DOMAIN results : \E i \in CurrentTasks : tasks[i].cmd.context_id = c

\* C22: every outcome a runner returns has duration_s >= 0, and duration_s
\* is the difference of two readings of the wall clock, the first taken
\* just before the spawn and the second at resolution, on every branch and
\* whatever the clock read.
C22_DurationNonNegative ==
    [][/\ \A i \in DOMAIN tasks' :
            (i \in DOMAIN tasks /\ ~IsResult(tasks[i].ret) /\ IsResult(tasks'[i].ret))
                => /\ tasks'[i].ret.duration_s >= 0
                   /\ \E now \in Clock : tasks'[i].ret.duration_s = now - tasks[i].start_time
       /\ \A call \in {sync_cmd'[k] : k \in DOMAIN sync_cmd'} :
            IsResult(sync_ret')
                => /\ sync_ret'.duration_s >= 0
                   /\ sync_ret'.duration_s = call.now - call.start_time]_vars

\* both runners returned the outcome of a timed-out command that took time
C22_Witness ==
    /\ IsResult(sync_ret) /\ sync_ret.status = "TIMEOUT" /\ sync_ret.duration_s > 0
    /\ \E i \in DOMAIN tasks :
        /\ tasks[i].pc = "returned"
        /\ tasks[i].how = "timeout"
        /\ tasks[i].ret.duration_s > 0

\* C23: at most max_concurrent_tasks execute_async calls are in flight at
\* once, and a command that finds every permit taken does not start: a
\* permit becomes free for it only when a command that was in flight has
\* recorded its outcome and released its permit.
C23_PermitGating ==
    [][/\ Cardinality({i \in DOMAIN tasks' : InFlight(i)'}) <= max_concurrent_tasks'
       /\ \A i \in DOMAIN tasks :
            (tasks[i].pc = "pending" /\ permits = 0)
                => /\ tasks'[i].pc = "pending"
                   /\ permits' > 0 =>
                        \E j \in DOMAIN tasks :
                            /\ InFlight(j)
                            /\ tasks'[j].pc = "returned"
                            /\ tasks[j].cmd.context_id \in DOMAIN results'
                            /\ results'[tasks[j].cmd.context_id] = tasks'[j].ret]_vars

\* two children of one batch are running at the same time
TwoChildrenRunning ==
    \E i, j \in DOMAIN tasks :
        /\ i < j
        /\ tasks[i].run = tasks[j].run
        /\ tasks[i].proc = "running"
        /\ tasks[j].proc = "running"

\* the command submitted later has resolved and is recorded while the one
\* submitted before it still waits for its running child
LaterRecordedFirst ==
    \E i, j \in DOMAIN tasks :
        /\ i < j
        /\ tasks[i].run = tasks[j].run
        /\ tasks[i].pc = "communicating" /\ tasks[i].proc = "running"
        /\ tasks[j].pc = "returned"
        /\ tasks[j].cmd.context_id \in DOMAIN results
        /\ results[tasks[j].cmd.context_id] = tasks[j].ret

C25_EffectiveEnvironment ==
    [][/\ \A n \in DOMAIN env_calls' :
            LET call == env_calls'[n]
            IN /\ DOMAIN call.env = DOMAIN os_environ' \cup DOMAIN call.env_vars
               /\ \A k \in DOMAIN call.env_vars : call.env[k] = call.env_vars[k]
               /\ \A k \in DOMAIN os_environ' \ DOMAIN call.env_vars :
                    call.env[k] = os_environ'[k]
       /\ os_environ' = os_environ
       /\ \A n \in DOMAIN env_calls : env_calls'[n] = env_calls[n]]_vars

\* two invocations in a process that inherited HOME and LANG: the first
\* overrides HOME, the second adds nothing
C25_Witness ==
    /\ DOMAIN os_environ = {"HOME", "LANG"}
    /\ Len(env_calls) = 2
    /\ DOMAIN env_calls[1].env_vars = {"HOME"}
    /\ env_calls[1].env_vars["HOME"] # os_environ["HOME"]
    /\ env_calls[1].env["HOME"] = env_calls[1].env_vars["HOME"]
    /\ env_calls[1].env["LANG"] = os_environ["LANG"]
    /\ env_calls[2].env = os_environ
    /\ env_calls[1].runner # env_calls[2].runner

\* C26: in every reachable state of a manager the free permits plus the
\* run_single_step invocations inside the semaphore block make up
\* max_concurrent_tasks: every exit from the block, by return or by an
\* exception of execute_async, gives the permit back.
C26_PermitConservation ==
    permits + Cardinality({i \in DOMAIN tasks : InFlight(i)}) = max_concurrent_tasks

\* an execute_async call raised inside the block and every permit is free again
C26_Witness ==
    /\ max_concurrent_tasks >= 1
    /\ permits = max_concurrent_tasks
    /\ \E i \in DOMAIN tasks :
        /\ tasks[i].pc = "raised"
        /\ tasks[i].how \in {"exit", "timeout", "fault", "spawn"}

\* C27: no outcome execute_sync or execute_async returns has the status
\* ERROR: every returned status is SUCCESS, FAILURE or TIMEOUT.
C27_NeverStatusError ==
    \A r \in Returned : r.status \in {"SUCCESS", "FAILURE", "TIMEOUT"}

\* both runners returned from their except Exception branch
C27_Witness ==
    /\ \E k \in DOMAIN sync_cmd : sync_cmd[k].run.kind = "OSError" /\ IsResult(sync_ret)
    /\ \E i \in DOMAIN tasks : tasks[i].how = "fault" /\ IsResult(tasks[i].ret)

\* C28: every TIMEOUT outcome execute_async returns has empty stdout and
\* empty stderr, whatever the child had written before the deadline.
C28_TimeoutOutputEmpty ==
    \A i \in DOMAIN tasks :
        (IsResult(tasks[i].ret) /\ tasks[i].ret.status = "TIMEOUT")
            => tasks[i].ret.stdout = <<>> /\ tasks[i].ret.stderr = <<>>

\* a call timed out after its child had written output that was read
C28_Witness ==
    \E i \in DOMAIN tasks :
        /\ AsyncTimedOut(i)
        /\ tasks[i].nread > 0
        /\ tasks[i].pc = "returned"
        /\ tasks[i].ret.status = "TIMEOUT"

\* two commands of the batch share a context_id
SharedContextId ==
    \E i, j \in CurrentTasks : i # j /\ tasks[i].cmd.context_id = tasks[j].cmd.context_id

\* C29: context_ids are not checked for uniqueness. When two commands of a
\* batch share a context_id, both are executed, each outcome is recorded
\* under the shared key over whatever was there, and when run_workflow
\* returns, results has fewer entries than commands were submitted while
\* the status is computed from all returned outcomes.
C29_SharedContextIdOverwrites ==
    [][/\ \A i \in DOMAIN tasks :
            (tasks[i].pc # "returned" /\ tasks'[i].pc = "returned")
                => /\ DOMAIN results' = DOMAIN results \cup {tasks[i].cmd.context_id}
                   /\ results'[tasks[i].cmd.context_id] = tasks'[i].ret
       /\ (wf_pc = "gathering" /\ wf_pc' = "returned" /\ status' # "FATAL_ERROR"
           /\ SharedContextId)
            => /\ \A i \in CurrentTasks : tasks[i].pc = "returned" /\ tasks[i].how # ""
               /\ Cardinality(DOMAIN results') < Cardinality(CurrentTasks)
               /\ status' = IF \E i \in CurrentTasks : tasks[i].ret.status # "SUCCESS"
                            THEN "COMPLETED_WITH_ERRORS" ELSE "SUCCESS"]_vars

\* C30: when the task awaiting execute_async is cancelled while the child
\* is running, the call still returns an ExecutionResult, with status
\* FAILURE and exit_code -1, sends the child no signal, and no exception
\* reaches the caller.
C30_CancellationAbsorbed ==
    [][\A i \in DOMAIN tasks :
        (/\ tasks[i].pc = "communicating"
         /\ tasks[i].proc = "running"
         /\ tasks'[i].how = "cancel")
            => /\ tasks'[i].pc = "returned"
               /\ IsResult(tasks'[i].ret)
               /\ tasks'[i].ret.status = "FAILURE"
               /\ tasks'[i].ret.exit_code = NoExitCode
               /\ tasks'[i].signals = <<>>
               /\ tasks'[i].proc = "running"]_vars

====
